---- MODULE Spec2Model ----
(***************************************************************************)
(* A model of the OEBB client library (test-auth.js lines 124-530, the     *)
(* same code as oebb-direct.js apart from authenticate/getStations) and of *)
(* the demo CLI's "search", "departures", "delay" and "track" commands.    *)
(*                                                                         *)
(* Text the code transforms (train labels, "HH:MM" times, delay minutes,   *)
(* dates) is a sequence of one-character strings, so that toLowerCase,     *)
(* replace(/\s+/g,''), includes, split and parseInt are computed.  Opaque  *)
(* text (station ids, status tags, error messages) is a TLA+ string.       *)
(* A JS object is a record; a property the object lacks is a field the     *)
(* record lacks.  Instants are milliseconds since local midnight of day 0. *)
(***************************************************************************)
EXTENDS Integers, Sequences, FiniteSets, TLC

VARIABLES
    op,           \* the library call the process makes: "track", "delay", "departures"
                  \* or "search"; "authtest" for a run of the handshake test script
    trainName,    \* the train label argument
    count,        \* searchStations' count argument
    stationIds,   \* the station id list argument (one id for "delay")
    upstream,     \* upstream[i]: what the board request for station i is answered with
    clock,        \* the wall clock, in ms
    ticks,        \* ms the clock has advanced since the call started
    pc,           \* "start", "waiting" (requests in flight), "settled", "done", "exit1",
                  \* "crashed"; in the test script also "alt_then" and "alt_catch": the
                  \* alternative handshake called from .then, from the first .catch
    lookup,       \* lookup[i]: "idle", "requested", "settled" or "hung", one per station
    values,       \* Promise.all's values list, a hole where a lookup has not fulfilled
    outcome,      \* the promise the library call returned
    report,       \* what the demo command derived and printed
    auth,         \* what authenticate() meets: the stub, or the handshake's answer
    authCalls,    \* calls of authenticate() made by the current library call
    requests,     \* requests[i]: data requests issued for lookup i by the current call
    remaining,    \* library calls the caller makes after the current one
    previous,     \* the checkpoints the caller's earlier track call resolved with
    altCalls      \* calls of authenticateAlternative() made by the test script

vars == <<op, trainName, count, stationIds, upstream, clock, ticks, pc, lookup, values, outcome,
          report, auth, authCalls, requests, remaining, previous, altCalls>>

(***************************************************************************)
(* Bounds of the model.                                                    *)
(***************************************************************************)
MaxLabelLen == 2     \* characters in a train label
MaxDepartures == 2   \* records on a board
MaxStations == 3     \* station ids in one track call
MaxTicks == 1        \* ms the clock advances during one call
MaxSuggestions == 2  \* suggestions in one station search response
MaxRecallStations == 2   \* station ids of a track call the caller makes a second time

(***************************************************************************)
(* Strings.                                                                *)
(***************************************************************************)
Alphabet == {"R", "r", " "}
Whitespace == {" "}

\* the value of a property that is missing, where a string is expected
Undefined == <<"undefined">>
\* what a template literal prints for it
UndefinedText == <<"u", "n", "d", "e", "f", "i", "n", "e", "d">>

Get(o, f) == IF f \in DOMAIN o THEN o[f] ELSE Undefined

\* JS truthiness of a string-or-undefined value
Truthy(s) == s # Undefined /\ s # <<>>

\* s || t
OrElse(s, t) == IF Truthy(s) THEN s ELSE t

\* `${s}`
Text(s) == IF s = Undefined THEN UndefinedText ELSE s

ToLowerChar(c) == IF c = "R" THEN "r" ELSE c

ToLowerCase(s) == [i \in 1..Len(s) |-> ToLowerChar(s[i])]

IsWhitespace(c) == c \in Whitespace

\* s.replace(/\s+/g, '')
StripWhitespace(s) == SelectSeq(s, LAMBDA c : ~IsWhitespace(c))

\* s.includes(t)
Includes(s, t) ==
    \E i \in 0..(Len(s) - Len(t)) : SubSeq(s, i + 1, i + Len(t)) = t

DigitValue(c) ==
    CASE c = "0" -> 0 [] c = "1" -> 1 [] c = "2" -> 2 [] c = "3" -> 3
      [] c = "4" -> 4 [] c = "5" -> 5 [] c = "6" -> 6 [] c = "7" -> 7
      [] c = "8" -> 8 [] c = "9" -> 9

\* parseInt on a string of decimal digits (the upstream's numerals)
RECURSIVE ParseInt(_)
ParseInt(s) ==
    IF Len(s) = 0 THEN 0
    ELSE 10 * ParseInt(SubSeq(s, 1, Len(s) - 1)) + DigitValue(s[Len(s)])

\* s.split(sep), sep one character
RECURSIVE Split(_, _)
Split(s, sep) ==
    LET at == {i \in 1..Len(s) : s[i] = sep}
    IN  IF at = {} THEN <<s>>
        ELSE LET i == CHOOSE k \in at : \A j \in at : k <= j
             IN  <<SubSeq(s, 1, i - 1)>> \o Split(SubSeq(s, i + 1, Len(s)), sep)

(***************************************************************************)
(* Dates: the local-time Date operations the code uses.                    *)
(***************************************************************************)
MsPerMinute == 60000
MsPerHour == 3600000
MsPerDay == 86400000

DayOf(t) == t \div MsPerDay

\* date.getMinutes()
GetMinutes(t) == (t % MsPerHour) \div MsPerMinute

\* date.setHours(h, m, 0, 0): same day, the given time of day
SetHours(t, h, m) == DayOf(t) * MsPerDay + h * MsPerHour + m * MsPerMinute

\* date.setMinutes(m): same hour, seconds and ms kept, m may exceed 59
SetMinutes(t, m) == t - GetMinutes(t) * MsPerMinute + m * MsPerMinute

(***************************************************************************)
(* The match predicate, as written in each of its two places.              *)
(***************************************************************************)
\* checkTrainDelay's departures.find callback
DelayMatches(d, trainNumber) ==
    LET searchPattern == ToLowerCase(StripWhitespace(trainNumber))
        fullName == StripWhitespace(ToLowerCase(OrElse(Get(d, "pr"), <<>>)))
    IN  \/ fullName = searchPattern
        \/ Get(d, "pr") = trainNumber
        \/ (Truthy(Get(d, "pr")) /\ Includes(ToLowerCase(d.pr), ToLowerCase(trainNumber)))

\* a find callback whose substring test forgets to lowercase the record's label
TrackMatchesCaseSensitive(d, name) ==
    LET fullName == StripWhitespace(ToLowerCase(OrElse(Get(d, "pr"), <<>>)))
    IN  \/ fullName = StripWhitespace(ToLowerCase(name))
        \/ Get(d, "pr") = name
        \/ (Truthy(Get(d, "pr")) /\ Includes(d.pr, ToLowerCase(name)))

\* trackTrainJourney's departures.find callback
TrackMatches(d, name) ==
    LET fullName == StripWhitespace(ToLowerCase(OrElse(Get(d, "pr"), <<>>)))
    IN  \/ fullName = StripWhitespace(ToLowerCase(name))
        \/ Get(d, "pr") = name
        \/ (Truthy(Get(d, "pr")) /\ Includes(ToLowerCase(d.pr), ToLowerCase(name)))

\* a find that returns the index of the last record passing the test
ArrayFindLast(passes) ==
    LET hits == {i \in 1..Len(passes) : passes[i]}
    IN  IF hits = {} THEN 0 ELSE CHOOSE i \in hits : \A j \in hits : j <= i

\* departures.find(test), given test's result on each record: the index of the first
\* record passing the test, 0 for undefined
ArrayFind(passes) ==
    LET hits == {i \in 1..Len(passes) : passes[i]}
    IN  IF hits = {} THEN 0 ELSE CHOOSE i \in hits : \A j \in hits : i <= j

(***************************************************************************)
(* Promises.  A settled promise is [state |-> "fulfilled", value |-> v] or *)
(* [state |-> "rejected", reason |-> e], e an Error with a message.        *)
(***************************************************************************)
Pending == [state |-> "pending"]
Fulfilled(v) == [state |-> "fulfilled", value |-> v]
Rejected(e) == [state |-> "rejected", reason |-> e]
Error(m) == [message |-> m]

(***************************************************************************)
(* authenticate.  The library stub of test-auth.js resolves at once.  The  *)
(* authenticate of oebb-direct.js and the two functions of the test script *)
(* make a handshake request, answered with [error |-> e] or [body |-> b];  *)
(* b is [empty |-> TRUE] for no body, else the object the upstream sent.   *)
(***************************************************************************)
Stub == [stub |-> TRUE]
Inet == <<"i", "n", "e", "t">>
Anonymous == <<"a", "n", "o", "n", "y", "m", "o", "u", "s">>
Direct == <<"d", "i", "r", "e", "c", "t">>
MockCookie == <<"m", "o", "c", "k", "-", "c", "o", "o", "k", "i", "e", "-",
                "v", "a", "l", "u", "e">>
NoAuthBodyError == Error("No body in auth response")
NoTokenError == Error("No access token in response")
NoAltBodyError == Error("No body in alternative auth response")
NoAltTokenError == Error("No access token in alternative auth response")

\* the promise authenticate() returns, once settled
AuthenticatePromise(answer) ==
    IF "stub" \in DOMAIN answer
    THEN Fulfilled([accessToken |-> <<>>, channel |-> Inet, sessionId |-> Anonymous,
                    supportId |-> Direct, cookie |-> MockCookie])
    ELSE IF "error" \in DOMAIN answer THEN Rejected(answer.error)
    ELSE IF "empty" \in DOMAIN answer.body THEN Rejected(NoAuthBodyError)
    ELSE IF Truthy(Get(answer.body, "accessToken"))
         THEN Fulfilled([accessToken |-> answer.body.accessToken,
                         channel |-> Get(answer.body, "channel"),
                         sessionId |-> Get(answer.body, "sessionId"),
                         supportId |-> Get(answer.body, "supportId"),
                         cookie |-> MockCookie])
    ELSE Rejected(NoTokenError)

\* the promise authenticateAlternative() returns, once settled
AlternativePromise(answer) ==
    IF "error" \in DOMAIN answer THEN Rejected(answer.error)
    ELSE IF "empty" \in DOMAIN answer.body THEN Rejected(NoAltBodyError)
    ELSE IF Truthy(Get(answer.body, "accessToken"))
         THEN Fulfilled([accessToken |-> answer.body.accessToken,
                         channel |-> Get(answer.body, "channel"),
                         sessionId |-> Get(answer.body, "sessionId"),
                         supportId |-> Get(answer.body, "supportId")])
    ELSE Rejected(NoAltTokenError)

\* a chain that goes on to the data requests whatever authenticate() gave
IssueAlways(p, reqs) == [i \in DOMAIN reqs |-> reqs[i] + 1]

\* authenticate().then(auth => ...): the handler, which issues one data request per
\* lookup, runs only when the authentication fulfilled
IssueAfterAuth(p, reqs) ==
    IF p.state = "fulfilled" THEN [i \in DOMAIN reqs |-> reqs[i] + 1] ELSE reqs

\* a request callback that issues the request once more when it is handed an error
RetryOnError(reqs, i, answer) ==
    IF "error" \in DOMAIN answer THEN [reqs EXCEPT ![i] = reqs[i] + 1] ELSE reqs

\* the requests issued once the callback of lookup i has run: the callbacks of
\* getBoardData and getStations settle their promise and issue nothing
RequestsAfterCallback(reqs, i, answer) == reqs

(***************************************************************************)
(* getBoardData: the request callback (error, response, body).             *)
(* An upstream answer is [error |-> e] or [body |-> b]; a body that is a   *)
(* string is [wrapped, json, data]: whether it holds "journeysObj = {..}", *)
(* whether the text in braces parses, and what it parses to; a body that   *)
(* is no string is [nostring |-> TRUE].                                    *)
(***************************************************************************)
FormatError == Error("Invalid response format from station board API")
NoDeparturesError == Error("No departures data in response")

\* body.match(/journeysObj\s*=\s*(\{.*\})/s) finds the wrapper
MatchJourneysObj(body) == body.wrapped

\* JSON.parse(match[1]) returns (rather than throws)
JsonParses(body) == body.json = "valid"

\* a callback with one rejection for every payload it cannot use
GetBoardDataOneError(answer) ==
    IF "error" \in DOMAIN answer THEN Rejected(answer.error)
    ELSE IF "nostring" \in DOMAIN answer.body THEN [state |-> "threw"]
    ELSE IF ~(MatchJourneysObj(answer.body) /\ JsonParses(answer.body))
         THEN Rejected(FormatError)
    ELSE IF "journey" \notin DOMAIN answer.body.data THEN Rejected(FormatError)
    ELSE Fulfilled(answer.body.data.journey)

\* the promise getBoardData returns, once the callback has run; "threw" when the
\* callback itself throws (body.match and then body.substring on a non-string),
\* in which case neither resolve nor reject is ever called
GetBoardData(answer) ==
    IF "error" \in DOMAIN answer THEN Rejected(answer.error)
    ELSE IF "nostring" \in DOMAIN answer.body THEN [state |-> "threw"]
    ELSE IF ~(MatchJourneysObj(answer.body) /\ JsonParses(answer.body))
         THEN Rejected(FormatError)
    ELSE IF "journey" \notin DOMAIN answer.body.data THEN Rejected(NoDeparturesError)
    ELSE Fulfilled(answer.body.data.journey)

(***************************************************************************)
(* trackTrainJourney: the handlers chained on one station's board promise. *)
(***************************************************************************)
Space == <<" ">>
Colon == ":"
NotApplicable == <<"N", "/", "A">>
TypeErrorSplit == Error("Cannot read properties of undefined (reading 'split')")

\* hasDelay = train.rt && train.rt.dlm, as a condition
HasDelay(train) == "rt" \in DOMAIN train /\ Truthy(Get(train.rt, "dlm"))

\* delayMinutes = hasDelay ? parseInt(train.rt.dlm) : 0
DelayMinutes(train) == IF HasDelay(train) THEN ParseInt(train.rt.dlm) ELSE 0

\* scheduledDate: a second new Date() (read at instant today), set to train.ti
ScheduledDate(train, today) ==
    LET scheduledTime == Split(train.ti, Colon)
        scheduledHour == ParseInt(scheduledTime[1])
        scheduledMinute == ParseInt(scheduledTime[2])
    IN  SetHours(today, scheduledHour, scheduledMinute)

\* actualDepartureDate = scheduledDate plus delayMinutes
ActualDepartureDate(train, today) ==
    LET scheduledDate == ScheduledDate(train, today)
    IN  SetMinutes(scheduledDate, GetMinutes(scheduledDate) + DelayMinutes(train))

\* now > actualDepartureDate
HasDeparted(now, actualDepartureDate) == now > actualDepartureDate

\* a derivation that never reports a canceled train as departed
DeriveStatusUnlessCanceled(train, now, today) ==
    IF /\ HasDeparted(now, ActualDepartureDate(train, today))
       /\ ~("rt" \in DOMAIN train /\ "status" \in DOMAIN train.rt /\ train.rt.status = "Ausfall")
    THEN "departed"
    ELSE IF HasDelay(train) THEN "delayed"
    ELSE "scheduled"

\* let status = 'scheduled'; if (now > actual) 'departed' else if (hasDelay) 'delayed'
DeriveStatus(train, now, today) ==
    IF HasDeparted(now, ActualDepartureDate(train, today)) THEN "departed"
    ELSE IF HasDelay(train) THEN "delayed"
    ELSE "scheduled"

\* a checkpoint whose departed flag compares now with the scheduled time, the
\* delay left out
CheckpointDepartedOnSchedule(stationId, train, now, today) ==
    IF "ti" \notin DOMAIN train THEN Rejected(TypeErrorSplit)
    ELSE Fulfilled(
           [stationId |-> stationId,
            found |-> TRUE,
            train |-> train,
            status |-> DeriveStatus(train, now, today),
            scheduledDeparture |-> Text(Get(train, "da")) \o Space \o train.ti,
            actualDeparture |->
                IF HasDelay(train)
                THEN Text(Get(train.rt, "dld")) \o Space \o Text(Get(train.rt, "dlt"))
                ELSE Text(Get(train, "da")) \o Space \o train.ti,
            delayMinutes |-> DelayMinutes(train),
            platform |-> OrElse(Get(train, "tr"), NotApplicable),
            departed |-> HasDeparted(now, ScheduledDate(train, today))])

\* the checkpoint returned for a matched record (the handler throws when train.ti
\* is undefined)
Checkpoint(stationId, train, now, today) ==
    IF "ti" \notin DOMAIN train THEN Rejected(TypeErrorSplit)
    ELSE Fulfilled(
           [stationId |-> stationId,
            found |-> TRUE,
            train |-> train,
            status |-> DeriveStatus(train, now, today),
            scheduledDeparture |-> Text(Get(train, "da")) \o Space \o train.ti,
            actualDeparture |->
                IF HasDelay(train)
                THEN Text(Get(train.rt, "dld")) \o Space \o Text(Get(train.rt, "dlt"))
                ELSE Text(Get(train, "da")) \o Space \o train.ti,
            delayMinutes |-> DelayMinutes(train),
            platform |-> OrElse(Get(train, "tr"), NotApplicable),
            departed |-> HasDeparted(now, ActualDepartureDate(train, today))])

\* a handler that throws when no record matches, as checkTrainDelay's does
TrackThenThrowOnMiss(stationId, departures, name, now, today) ==
    LET at == ArrayFind([k \in 1..Len(departures) |-> TrackMatches(departures[k], name)])
    IN  IF at = 0 THEN Rejected(Error("Train not found"))
        ELSE Checkpoint(stationId, departures[at], now, today)

\* the .then(departures => ...) handler; now and today are its two clock reads
TrackThen(stationId, departures, name, now, today) ==
    LET at == ArrayFind([k \in 1..Len(departures) |-> TrackMatches(departures[k], name)])
    IN  IF at = 0
        THEN Fulfilled([stationId |-> stationId, found |-> FALSE, status |-> "not_found"])
        ELSE Checkpoint(stationId, departures[at], now, today)

\* a chain without the .catch: the rejection reaches Promise.all
NoCatch(stationId, p) == p

\* the .catch(error => ...) handler chained after it
StationCatch(stationId, p) ==
    IF p.state = "rejected"
    THEN Fulfilled([stationId |-> stationId, found |-> FALSE, error |-> p.reason.message])
    ELSE p

\* the promise stationIds.map makes for one station: getBoardData(..).then(..).catch(..);
\* the .then handler runs on fulfilment, a rejection passes through to the .catch
StationPromise(stationId, answer, name, now, today) ==
    LET board == GetBoardData(answer)
    IN  StationCatch(stationId,
                     IF board.state = "fulfilled"
                     THEN TrackThen(stationId, board.value, name, now, today)
                     ELSE board)

(***************************************************************************)
(* Promise.all(stationPromises).                                           *)
(***************************************************************************)
Hole == [hole |-> TRUE]
IsHole(v) == "hole" \in DOMAIN v

\* a values list that still holds what an earlier call stored
KeepValues(old) == old

\* the values list of a call's own Promise.all: all holes
FreshValues(old) == [i \in DOMAIN old |-> Hole]

\* a resolve-element function that stores values in the order they arrive
ResolveInArrivalOrder(vals, index, v) ==
    LET holes == {k \in 1..Len(vals) : IsHole(vals[k])}
        first == CHOOSE k \in holes : \A j \in holes : k <= j
    IN  [vals EXCEPT ![first] = v]

\* the resolve-element function of input promise number index stores its value
ResolveElement(vals, index, v) == [vals EXCEPT ![index] = v]

\* the promise Promise.all returned, after input promise number index settled as p
PromiseAll(current, vals, index, p) ==
    IF current.state # "pending" THEN current
    ELSE IF p.state = "rejected" THEN p
    ELSE IF \A k \in 1..Len(vals) : ~IsHole(ResolveElement(vals, index, p.value)[k])
         THEN Fulfilled(ResolveElement(vals, index, p.value))
    ELSE current

(***************************************************************************)
(* checkTrainDelay: the handler chained on the board promise.              *)
(***************************************************************************)
Null == "null"
Canceled == "Ausfall"

\* new Error(`Train ${trainNumber} not found at station ${stationId}`)
NotFoundError(trainNumber, stationId) ==
    [message |-> "Train not found at station", train |-> trainNumber, station |-> stationId]

\* status = train.rt && train.rt.status ? train.rt.status : null
RealtimeStatus(train) ==
    IF "rt" \in DOMAIN train /\ "status" \in DOMAIN train.rt THEN train.rt.status ELSE Null

\* train.rt && train.rt[f] ? train.rt[f] : fallback
RealtimeOr(train, f, fallback) ==
    IF "rt" \in DOMAIN train /\ Truthy(Get(train.rt, f)) THEN train.rt[f] ELSE fallback

\* a handler that takes isDelayed from the truthiness of the delay field, as
\* trackTrainJourney's hasDelay does
DelayThenTruthy(stationId, departures, trainNumber) ==
    LET at == ArrayFind([k \in 1..Len(departures) |-> DelayMatches(departures[k], trainNumber)])
        train == departures[at]
        departureTime == OrElse(Get(train, "ti"), <<>>)
        departureDate == OrElse(Get(train, "da"), <<>>)
        delay == DelayMinutes(train)
    IN  IF at = 0 THEN Rejected(NotFoundError(trainNumber, stationId))
        ELSE Fulfilled(
               [train |-> train,
                isDelayed |-> HasDelay(train),
                delayMinutes |-> delay,
                scheduledDeparture |-> departureDate \o Space \o departureTime,
                actualDeparture |-> RealtimeOr(train, "dld", departureDate) \o Space
                                      \o RealtimeOr(train, "dlt", departureTime),
                platform |-> OrElse(Get(train, "tr"), <<>>),
                direction |-> OrElse(Get(train, "lastStop"), <<>>),
                status |-> RealtimeStatus(train),
                canceled |-> RealtimeStatus(train) = Canceled])

\* the .then(departures => ...) handler
DelayThen(stationId, departures, trainNumber) ==
    LET at == ArrayFind([k \in 1..Len(departures) |-> DelayMatches(departures[k], trainNumber)])
        train == departures[at]
        departureTime == OrElse(Get(train, "ti"), <<>>)
        departureDate == OrElse(Get(train, "da"), <<>>)
        delay == DelayMinutes(train)
    IN  IF at = 0 THEN Rejected(NotFoundError(trainNumber, stationId))
        ELSE Fulfilled(
               [train |-> train,
                isDelayed |-> delay > 0,
                delayMinutes |-> delay,
                scheduledDeparture |-> departureDate \o Space \o departureTime,
                actualDeparture |-> RealtimeOr(train, "dld", departureDate) \o Space
                                      \o RealtimeOr(train, "dlt", departureTime),
                platform |-> OrElse(Get(train, "tr"), <<>>),
                direction |-> OrElse(Get(train, "lastStop"), <<>>),
                status |-> RealtimeStatus(train),
                canceled |-> RealtimeStatus(train) = Canceled])

\* a chain that reports every failure as the train not being found
DelayPromiseNotFoundOnFailure(stationId, answer, trainNumber) ==
    LET board == GetBoardData(answer)
    IN  IF board.state = "fulfilled" THEN DelayThen(stationId, board.value, trainNumber)
        ELSE IF board.state = "rejected" THEN Rejected(NotFoundError(trainNumber, stationId))
        ELSE board

\* the promise checkTrainDelay returns: getBoardData(..).then(..)
DelayPromise(stationId, answer, trainNumber) ==
    LET board == GetBoardData(answer)
    IN  IF board.state = "fulfilled" THEN DelayThen(stationId, board.value, trainNumber)
        ELSE board

\* the delay command's .then(result => ...): which of the three lines it prints
DelayVerdict(result) ==
    IF result.canceled THEN "canceled"
    ELSE IF result.isDelayed THEN "delayed"
    ELSE "on_time"

(***************************************************************************)
(* getStations: the request callback (error, response, body).  A body is   *)
(* [empty |-> TRUE] (the empty string), [nostring |-> TRUE], or            *)
(* [marker, json, data]: whether it holds "SLs.sls = {..}", whether the    *)
(* text in braces parses, and what it parses to.                           *)
(***************************************************************************)
DefaultCount == 15

NoBodyError == Error("No body in stations response")
CouldNotParseError == Error("Could not parse station suggestions response")
\* new Error(`Error parsing station data: ${e.message}`)
ParsingError == Error("Error parsing station data")

\* body.match(/SLs\.sls\s*=\s*(\{.*\})/s) finds the wrapper
MatchSLs(body) == body.marker

\* s.xcoord ? parseFloat(s.xcoord) / 1000000 : 0, kept in millionths of a degree
Coordinate(s, f) == IF Truthy(Get(s, f)) THEN ParseInt(s[f]) ELSE 0

\* the object the map callback returns for suggestion s
ToStation(s) ==
    [number |-> Get(s, "extId"),
     name |-> Get(s, "value"),
     meta |-> Get(s, "value"),
     xcoord |-> Get(s, "xcoord"),
     ycoord |-> Get(s, "ycoord"),
     location |-> [longitude |-> Coordinate(s, "xcoord"),
                   latitude |-> Coordinate(s, "ycoord"),
                   distanceInKm |-> 0]]

\* a map that builds the list back to front
MapSuggestionsReversed(suggestions) ==
    [i \in 1..Len(suggestions) |-> ToStation(suggestions[Len(suggestions) + 1 - i])]

\* data.suggestions.map(s => ...)
MapSuggestions(suggestions) == [i \in 1..Len(suggestions) |-> ToStation(suggestions[i])]

\* a callback that resolves with the empty list when it cannot parse the response,
\* as searchStationsAlternative does
GetStationsLastResort(answer, name, n) ==
    IF "error" \in DOMAIN answer THEN Rejected(answer.error)
    ELSE IF "empty" \in DOMAIN answer.body THEN Rejected(NoBodyError)
    ELSE IF "nostring" \in DOMAIN answer.body THEN Fulfilled(<<>>)
    ELSE IF ~MatchSLs(answer.body) THEN Rejected(CouldNotParseError)
    ELSE IF ~JsonParses(answer.body) THEN Fulfilled(<<>>)
    ELSE Fulfilled(IF "suggestions" \in DOMAIN answer.body.data
                   THEN MapSuggestions(answer.body.data.suggestions)
                   ELSE <<>>)

\* the promise getStations returns, once the callback has run; name and count are
\* its arguments (name goes into the query string, count is not used)
GetStations(answer, name, n) ==
    IF "error" \in DOMAIN answer THEN Rejected(answer.error)
    ELSE IF "empty" \in DOMAIN answer.body THEN Rejected(NoBodyError)
    ELSE IF "nostring" \in DOMAIN answer.body THEN Rejected(ParsingError)
    ELSE IF ~MatchSLs(answer.body) THEN Rejected(CouldNotParseError)
    ELSE IF ~JsonParses(answer.body) THEN Rejected(ParsingError)
    ELSE Fulfilled(IF "suggestions" \in DOMAIN answer.body.data
                   THEN MapSuggestions(answer.body.data.suggestions)
                   ELSE <<>>)

(***************************************************************************)
(* The track command's .then(results => ...): the overall inference.       *)
(***************************************************************************)
NoStation == [null |-> TRUE]
IsNull(ref) == "null" \in DOMAIN ref
StationRef(station) == [stationId |-> station.stationId, time |-> station.actualDeparture]

\* a lastDeparted that is set once, like nextArrival
KeepFirstDeparted(acc, station) ==
    IF IsNull(acc.lastDeparted) THEN [acc EXCEPT !.lastDeparted = StationRef(station)] ELSE acc

\* lastDeparted = {...} for a departed checkpoint
SetLastDeparted(acc, station) == [acc EXCEPT !.lastDeparted = StationRef(station)]

\* if (!nextArrival) nextArrival = {...} for a scheduled or delayed checkpoint
SetNextArrival(acc, station) ==
    IF IsNull(acc.nextArrival) THEN [acc EXCEPT !.nextArrival = StationRef(station)] ELSE acc

\* the body of results.forEach(station => ...)
InferStep(acc, station) ==
    IF station.found
    THEN IF station.status = "departed" THEN SetLastDeparted(acc, station)
         ELSE IF station.status \in {"scheduled", "delayed"} THEN SetNextArrival(acc, station)
         ELSE acc
    ELSE acc

RECURSIVE ForEach(_, _, _)
ForEach(results, k, acc) ==
    IF k > Len(results) THEN acc ELSE ForEach(results, k + 1, InferStep(acc, results[k]))

\* status lines whose nextArrival branch is tested first
CurrentLocationNextFirst(lastDeparted, nextArrival) ==
    IF ~IsNull(nextArrival) THEN "not_yet_departed"
    ELSE IF ~IsNull(lastDeparted) THEN "departed_all"
    ELSE "unable_to_determine"

\* the "Current status" lines printed
CurrentLocation(lastDeparted, nextArrival) ==
    IF ~IsNull(lastDeparted)
    THEN IF ~IsNull(nextArrival) THEN "between" ELSE "departed_all"
    ELSE IF ~IsNull(nextArrival) THEN "not_yet_departed"
    ELSE "unable_to_determine"

TrackReport(results) ==
    LET acc == ForEach(results, 1, [lastDeparted |-> NoStation, nextArrival |-> NoStation])
    IN  [lastDeparted |-> acc.lastDeparted,
         nextArrival |-> acc.nextArrival,
         location |-> CurrentLocation(acc.lastDeparted, acc.nextArrival)]

(***************************************************************************)
(* Inputs: the arguments of the call and the upstream's answers.           *)
(***************************************************************************)
SeqsUpTo(S, n) == UNION {[1..k -> S] : k \in 0..n}

Labels == SeqsUpTo(Alphabet, MaxLabelLen)

AllStationIds == <<"1290401", "8100008", "8100013", "8100002", "8100173", "8100101">>

Date0 == <<"0", "2", ".", "1", "1", ".", "2", "0", "2", "6">>   \* the date of day 0
Date1 == <<"0", "3", ".", "1", "1", ".", "2", "0", "2", "6">>   \* the date of day 1
Noon == 12 * MsPerHour                  \* day 0, 12:00:00.000
LastMs == MsPerDay - 1                  \* day 0, 23:59:59.999

T0000 == <<"0", "0", ":", "0", "0">>
T1100 == <<"1", "1", ":", "0", "0">>
T1155 == <<"1", "1", ":", "5", "5">>
T1159 == <<"1", "1", ":", "5", "9">>
T1200 == <<"1", "2", ":", "0", "0">>
T1204 == <<"1", "2", ":", "0", "4">>
T1300 == <<"1", "3", ":", "0", "0">>
T2359 == <<"2", "3", ":", "5", "9">>
Times == {T0000, T1155, T1159, T1200, T1300, T2359}

\* a departure record as the upstream sends it, `pr` left out when label is Undefined
Train(label, ti, da) ==
    LET rest == [ti |-> ti, da |-> da, lastStop |-> <<"G", "r", "a", "z">>, tr |-> <<"7">>]
    IN  IF label = Undefined THEN rest ELSE [pr |-> label] @@ rest

\* the realtime objects: none, a cancellation, a delay of "0", a delay of "5"
Realtimes ==
    {[status |-> Canceled],
     [dlm |-> <<"0">>, dlt |-> T1200, dld |-> Date0],
     [dlm |-> <<"5">>, dlt |-> T1204, dld |-> Date0],
     [dlm |-> <<"5">>, dlt |-> T1204, dld |-> Date0, status |-> Canceled]}

WithRealtime(train, rt) == train @@ [rt |-> rt]

\* the train label used where the label is not what is explored
Query == <<"R", "r">>

Board(journey) == [body |-> [wrapped |-> TRUE, json |-> "valid", data |-> [journey |-> journey]]]

TransportError == [error |-> Error("ETIMEDOUT")]
NoWrapper == [body |-> [wrapped |-> FALSE, json |-> "valid", data |-> [journey |-> <<>>]]]
BadJson == [body |-> [wrapped |-> TRUE, json |-> "invalid", data |-> [other |-> TRUE]]]
NoJourney == [body |-> [wrapped |-> TRUE, json |-> "valid", data |-> [other |-> TRUE]]]
NoString == [body |-> [nostring |-> TRUE]]
\* the departures list as plain JSON, without the journeysObj marker
PlainJson == [body |-> [wrapped |-> FALSE, json |-> "valid",
                        data |-> [journey |-> <<Train(Query, T1200, Date0)>>]]]
FailingAnswers == {TransportError, NoWrapper, PlainJson, BadJson, NoJourney, NoString}

\* what the upstream may answer for a station when the caller asks a second time
RecallAnswers == {TransportError, Board(<<Train(Query, T1300, Date0)>>)}

\* the suggestions of a station search response; the last one has no coordinates
Suggestions ==
    {[value |-> <<"W", "i", "e", "n">>, extId |-> <<"1", "2", "9", "0", "4", "0", "1">>,
      xcoord |-> <<"1", "6", "3", "7", "5", "3", "2", "6">>,
      ycoord |-> <<"4", "8", "1", "8", "5", "5", "0", "7">>],
     [value |-> <<"G", "r", "a", "z">>, extId |-> <<"8", "1", "0", "0", "1", "7", "3">>,
      xcoord |-> <<"1", "5", "4", "1", "7", "2", "5", "7">>,
      ycoord |-> <<"4", "7", "0", "7", "2", "6", "0", "4">>],
     [value |-> <<"L", "i", "n", "z">>, extId |-> <<"8", "1", "0", "0", "0", "1", "3">>]}

StationsBody(data) == [body |-> [marker |-> TRUE, json |-> "valid", data |-> data]]
EmptyBody == [body |-> [empty |-> TRUE]]
NoMarker == [body |-> [marker |-> FALSE, json |-> "valid", data |-> [suggestions |-> <<>>]]]
BadStationsJson == [body |-> [marker |-> TRUE, json |-> "invalid", data |-> [other |-> TRUE]]]
NoSuggestions == StationsBody([other |-> TRUE])
SearchAnswers ==
    {StationsBody([suggestions |-> l]) : l \in SeqsUpTo(Suggestions, MaxSuggestions)}
      \cup {TransportError, EmptyBody, NoString, NoMarker, BadStationsJson, NoSuggestions}

\* the name searched for: the search command's default
SearchName == <<"W", "i", "e", "n">>

\* the count arguments: two small ones and the default of an omitted one
Counts == {1, 2, DefaultCount}

\* the labels a board's records carry next to query label l: l itself, a case and
\* whitespace variant of it, l inside a longer label, and no label
Variants(l) == {l, ToLowerCase(l) \o <<" ">>, l \o <<"r">>, <<"R">> \o l, Undefined}


(***************************************************************************)
(* Initial states: a call about to be made.  Three families of inputs:     *)
(* boards that vary the labels, boards that vary the times and realtime    *)
(* data, and journeys over several stations.                               *)
(***************************************************************************)
Fresh(n) ==
    /\ stationIds = SubSeq(AllStationIds, 1, n)
    /\ pc = "start"
    /\ lookup = [i \in 1..n |-> "idle"]
    /\ values = [i \in 1..n |-> Hole]
    /\ outcome = Pending
    /\ report = [printed |-> FALSE]
    /\ authCalls = 0
    /\ requests = [i \in 1..n |-> 0]
    /\ previous = <<>>
    /\ altCalls = 0

LabelBoards(l) ==
    {<<Train(k, T1300, Date0)>> : k \in Labels \cup {Undefined}}
      \cup {[i \in DOMAIN b |-> Train(b[i], T1300, Date0)] : b \in SeqsUpTo(Variants(l), MaxDepartures)}

InitMatch ==
    /\ op \in {"track", "delay"}
    /\ trainName \in Labels
    /\ count = DefaultCount
    /\ \E journey \in LabelBoards(trainName) : upstream = <<Board(journey)>>
    /\ clock = Noon
    /\ ticks = MaxTicks     \* the call completes within the millisecond
    /\ auth = Stub
    /\ remaining = 0
    /\ Fresh(1)

\* per-station answers of a journey: two kinds of failure, a board without the train,
\* and boards where the train has left, is due, or is late
JourneyAnswers ==
    {TransportError, NoJourney,
     Board(<<Train(<<" ">>, T1100, Date0)>>),
     Board(<<Train(<<" ">>, T1300, Date0), Train(Query, T1100, Date0)>>),
     Board(<<Train(Query, T1200, Date0)>>),
     Board(<<WithRealtime(Train(Query, T1159, Date0), [dlm |-> <<"5">>, dlt |-> T1204, dld |-> Date0])>>)}

TimedTrains ==
    LET plain == {Train(Query, ti, da) : ti \in Times, da \in {Date0, Date1}}
    IN  plain \cup {WithRealtime(t, rt) : t \in plain, rt \in Realtimes}

InitStatus ==
    /\ op \in {"track", "delay", "departures"}
    /\ trainName = Query
    /\ count = DefaultCount
    /\ \/ \E t \in TimedTrains : upstream = <<Board(<<t>>)>>
       \/ upstream = <<Board(<<>>)>>
       \/ \E a \in JourneyAnswers : upstream = <<a>>
       \/ \E a \in FailingAnswers : upstream = <<a>>
       \/ upstream = <<Board(<<[pr |-> Query, da |-> Date0]>>)>>
    /\ clock \in {Noon, LastMs}
    /\ ticks = 0
    /\ auth = Stub
    /\ remaining = 0
    /\ Fresh(1)

InitJourney ==
    /\ op = "track"
    /\ trainName = Query
    /\ count = DefaultCount
    /\ \E n \in 1..MaxStations :
          /\ upstream \in [1..n -> JourneyAnswers]
          /\ Fresh(n)
          /\ remaining = IF n <= MaxRecallStations THEN 1 ELSE 0
    /\ clock = Noon
    /\ ticks = 0
    /\ auth = Stub

\* a station search: searchStations(SearchName, count); the name only travels to
\* the upstream, whose answer is any of SearchAnswers; there is no train label
InitSearch ==
    /\ op = "search"
    /\ trainName = <<>>
    /\ count \in Counts
    /\ stationIds = <<>>
    /\ upstream \in {<<a>> : a \in SearchAnswers}
    /\ clock = Noon
    /\ ticks = MaxTicks
    /\ pc = "start"
    /\ lookup = <<"idle">>
    /\ values = <<Hole>>
    /\ outcome = Pending
    /\ report = [printed |-> FALSE]
    /\ auth = Stub
    /\ authCalls = 0
    /\ requests = <<0>>
    /\ remaining = 0
    /\ previous = <<>>
    /\ altCalls = 0

\* the handshake's answers: a transport error, no body, a body without a token,
\* a body with an empty token, a body with a token
NoToken == [body |-> [channel |-> Inet]]
EmptyToken == [body |-> [accessToken |-> <<>>, channel |-> Inet]]
Token == [body |-> [accessToken |-> <<"t">>, channel |-> Inet]]
HandshakeAnswers == {TransportError, EmptyBody, NoToken, EmptyToken, Token}

\* a track call of oebb-direct.js, whose authenticate() makes the handshake
InitHandshake ==
    /\ op = "track"
    /\ trainName = Query
    /\ count = DefaultCount
    /\ \E n \in 1..MaxStations :
          /\ upstream = [i \in 1..n |-> Board(<<Train(Query, T1200, Date0)>>)]
          /\ Fresh(n)
    /\ clock = Noon
    /\ ticks = MaxTicks
    /\ auth \in HandshakeAnswers
    /\ remaining = 0

\* a run of the authentication test script: auth answers the primary handshake,
\* upstream[k] the k-th call of the alternative one
InitAuthTest ==
    /\ op = "authtest"
    /\ trainName = <<>>
    /\ count = DefaultCount
    /\ stationIds = <<>>
    /\ auth \in HandshakeAnswers
    /\ upstream \in [1..2 -> HandshakeAnswers]
    /\ clock = Noon
    /\ ticks = MaxTicks
    /\ pc = "start"
    /\ lookup = <<>>
    /\ values = <<>>
    /\ outcome = Pending
    /\ report = [printed |-> FALSE]
    /\ authCalls = 0
    /\ requests = <<>>
    /\ remaining = 0
    /\ previous = <<>>
    /\ altCalls = 0

Init == InitMatch \/ InitStatus \/ InitJourney \/ InitSearch \/ InitHandshake \/ InitAuthTest

(***************************************************************************)
(* Actions.                                                                *)
(***************************************************************************)
\* authenticate() resolves and its .then(auth => ...) issues the board request of
\* every station (stationIds.map), or the one request of checkTrainDelay
\* when it rejects, the rejection passes down the chain to the caller
Authenticate ==
    /\ op \in {"track", "delay", "departures", "search"}
    /\ pc = "start"
    /\ LET p == AuthenticatePromise(auth)
       IN  /\ requests' = IssueAfterAuth(p, requests)
           /\ lookup' = [i \in DOMAIN lookup |->
                            IF requests'[i] > requests[i] THEN "requested" ELSE lookup[i]]
           /\ pc' = IF p.state = "fulfilled" THEN "waiting" ELSE "settled"
           /\ outcome' = IF p.state = "fulfilled" THEN outcome ELSE p
    /\ authCalls' = authCalls + 1
    /\ UNCHANGED <<op, trainName, count, stationIds, upstream, clock, ticks, values, report,
                   auth, remaining, previous, altCalls>>

\* time passes while requests are in flight
Tick ==
    /\ pc = "waiting"
    /\ ticks < MaxTicks
    /\ clock' = clock + 1
    /\ ticks' = ticks + 1
    /\ UNCHANGED <<op, trainName, count, stationIds, upstream, pc, lookup, values, outcome, report, auth, authCalls, requests, remaining, previous, altCalls>>

\* the request callback of station i, with the promise reactions it triggers
BoardCallback(i) ==
    /\ op \in {"track", "delay", "departures"}
    /\ pc = "waiting"
    /\ lookup[i] = "requested"
    /\ \E between \in 0..(IF op = "track" /\ ticks < MaxTicks THEN 1 ELSE 0) :
         LET now == clock
             today == clock + between
             board == GetBoardData(upstream[i])
             p == IF op = "track"
                  THEN StationPromise(stationIds[i], upstream[i], trainName, now, today)
                  ELSE IF op = "delay"
                  THEN DelayPromise(stationIds[i], upstream[i], trainName)
                  ELSE board
         IN  /\ clock' = today
             /\ ticks' = ticks + between
             /\ IF board.state = "threw"
                THEN /\ pc' = "crashed"
                     /\ lookup' = [lookup EXCEPT ![i] = "hung"]
                     /\ UNCHANGED <<values, outcome>>
                ELSE /\ lookup' = [lookup EXCEPT ![i] = "settled"]
                     /\ values' = IF op = "track" /\ p.state = "fulfilled"
                                  THEN ResolveElement(values, i, p.value)
                                  ELSE values
                     /\ outcome' = IF op = "track" THEN PromiseAll(outcome, values, i, p) ELSE p
                     /\ pc' = IF outcome'.state = "pending" THEN "waiting" ELSE "settled"
    /\ requests' = RequestsAfterCallback(requests, i, upstream[i])
    /\ UNCHANGED <<op, trainName, count, stationIds, upstream, report, auth, authCalls,
                   remaining, previous, altCalls>>

\* the request callback of getStations, with the promise reactions it triggers
StationsCallback ==
    /\ op = "search"
    /\ pc = "waiting"
    /\ lookup[1] = "requested"
    /\ lookup' = [lookup EXCEPT ![1] = "settled"]
    /\ outcome' = GetStations(upstream[1], SearchName, count)
    /\ pc' = "settled"
    /\ requests' = RequestsAfterCallback(requests, 1, upstream[1])
    /\ UNCHANGED <<op, trainName, count, stationIds, upstream, clock, ticks, values, report,
                   auth, authCalls, remaining, previous, altCalls>>

\* the demo command's .then handler
DemoThen ==
    /\ pc = "settled"
    /\ outcome.state = "fulfilled"
    /\ report' = CASE op = "track" -> [printed |-> TRUE] @@ TrackReport(outcome.value)
                   [] op = "delay" -> [printed |-> TRUE, verdict |-> DelayVerdict(outcome.value)]
                   [] op = "departures" -> [printed |-> TRUE, found |-> Len(outcome.value)]
                   [] op = "search" -> [printed |-> TRUE, found |-> Len(outcome.value)]
    /\ pc' = "done"
    /\ UNCHANGED <<op, trainName, count, stationIds, upstream, clock, ticks, lookup, values, outcome, auth, authCalls, requests, remaining, previous, altCalls>>

\* the demo command's .catch handler: process.exit(1)
DemoCatch ==
    /\ pc = "settled"
    /\ outcome.state = "rejected"
    /\ pc' = "exit1"
    /\ UNCHANGED <<op, trainName, count, stationIds, upstream, clock, ticks, lookup, values, outcome, report, auth, authCalls, requests, remaining, previous, altCalls>>

\* the caller makes the same track call a second time; meanwhile the upstream's
\* answer for one station may have changed
Recall ==
    /\ op = "track"
    /\ pc = "done"
    /\ remaining = 1
    /\ remaining' = 0
    /\ previous' = outcome.value
    /\ \E j \in DOMAIN upstream : \E a \in RecallAnswers \cup {upstream[j]} :
           upstream' = [upstream EXCEPT ![j] = a]
    /\ pc' = "start"
    /\ lookup' = [i \in DOMAIN lookup |-> "idle"]
    /\ values' = FreshValues(values)
    /\ outcome' = Pending
    /\ report' = [printed |-> FALSE]
    /\ authCalls' = 0
    /\ requests' = [i \in DOMAIN requests |-> 0]
    /\ ticks' = MaxTicks
    /\ UNCHANGED <<op, trainName, count, stationIds, clock, auth, altCalls>>

\* the test script: the callback of the primary handshake request.  Fulfilled, the
\* .then handler calls authenticateAlternative(); rejected, the first .catch does
PrimaryCallback ==
    /\ op = "authtest"
    /\ pc = "start"
    /\ altCalls' = altCalls + 1
    /\ pc' = IF AuthenticatePromise(auth).state = "fulfilled" THEN "alt_then" ELSE "alt_catch"
    /\ authCalls' = authCalls + 1
    /\ UNCHANGED <<op, trainName, count, stationIds, upstream, clock, ticks, lookup, values,
                   outcome, report, auth, requests, remaining, previous>>

\* the test script: the callback of an alternative handshake request.  A rejection
\* of the call made in the .then handler reaches the first .catch, which calls
\* authenticateAlternative() again; a rejection of a call made in the first .catch
\* reaches the second .catch: process.exit(1)
AlternativeCallback ==
    /\ op = "authtest"
    /\ pc \in {"alt_then", "alt_catch"}
    /\ LET q == AlternativePromise(upstream[altCalls])
       IN  IF q.state = "fulfilled"
           THEN /\ outcome' = q
                /\ pc' = "done"
                /\ UNCHANGED altCalls
           ELSE IF pc = "alt_then"
           THEN /\ altCalls' = altCalls + 1
                /\ pc' = "alt_catch"
                /\ UNCHANGED outcome
           ELSE /\ outcome' = q
                /\ pc' = "exit1"
                /\ UNCHANGED altCalls
    /\ UNCHANGED <<op, trainName, count, stationIds, upstream, clock, ticks, lookup, values,
                   report, auth, authCalls, requests, remaining, previous>>

Next ==
    \/ Authenticate
    \/ Tick
    \/ \E i \in DOMAIN lookup : BoardCallback(i)
    \/ StationsCallback
    \/ DemoThen
    \/ DemoCatch
    \/ Recall
    \/ PrimaryCallback
    \/ AlternativeCallback

Spec == Init /\ [][Next]_vars

(***************************************************************************)
(* What the properties below talk about.                                   *)
(***************************************************************************)
Stations == DOMAIN lookup

\* the departures list station i's request is answered with, if it is answered with one
HasJourney(i) == op # "search" /\ GetBoardData(upstream[i]).state = "fulfilled"
Journey(i) == upstream[i].body.data.journey

\* the checkpoint of station i, once a track call has one
HasCheckpoint(i) == op = "track" /\ lookup[i] = "settled" /\ ~IsHole(values[i])
Found(i) == HasCheckpoint(i) /\ values[i].found

\* the record a call selected at its station
Selected(i) == IF op = "track" THEN values[i].train ELSE outcome.value.train
HasSelected(i) ==
    IF op = "track" THEN Found(i)
    ELSE op = "delay" /\ lookup[i] = "settled" /\ outcome.state = "fulfilled"

\* a record's label, the empty label when it has none
LabelOf(d) == IF "pr" \in DOMAIN d THEN d.pr ELSE <<>>

\* the three clauses of the matching rule
EqualIgnoringCaseAndSpace(l, d) ==
    StripWhitespace(ToLowerCase(l)) = StripWhitespace(ToLowerCase(LabelOf(d)))
EqualExactly(l, d) == LabelOf(d) # <<>> /\ LabelOf(d) = l
ContainedIgnoringCase(l, d) ==
    LabelOf(d) # <<>> /\ Includes(ToLowerCase(LabelOf(d)), ToLowerCase(l))

\* the precedence of the best clause a record matches by, 4 when it matches by none
Precedence(l, d) ==
    IF EqualIgnoringCaseAndSpace(l, d) THEN 1
    ELSE IF EqualExactly(l, d) THEN 2
    ELSE IF ContainedIgnoringCase(l, d) THEN 3
    ELSE 4

\* the day a date text names, and a record's own scheduled instant
DayOfDate(da) == IF da = Date0 THEN 0 ELSE 1
ScheduledInstant(d) ==
    LET hm == Split(d.ti, Colon)
    IN  DayOfDate(d.da) * MsPerDay + ParseInt(hm[1]) * MsPerHour + ParseInt(hm[2]) * MsPerMinute

\* a record's realtime delay: present when it carries delay minutes, 0 minutes otherwise
DelayPresent(d) == "rt" \in DOMAIN d /\ "dlm" \in DOMAIN d.rt /\ d.rt.dlm # <<>>
DelayOf(d) == IF DelayPresent(d) THEN ParseInt(d.rt.dlm) ELSE 0

\* station i's callback runs in this step and leaves a checkpoint of a matched record
Derives(i) ==
    /\ op = "track"
    /\ lookup[i] = "requested"
    /\ lookup'[i] = "settled"
    /\ ~IsHole(values'[i])
    /\ values'[i].found

(***************************************************************************)
(* C1: for every query label and every record of a board, the find         *)
(* callbacks of checkTrainDelay and of trackTrainJourney are true exactly  *)
(* when the labels are equal after lowercasing and removing whitespace, or *)
(* equal exactly, or the lowercased query is a substring of the lowercased *)
(* record label; a record without a label, or with the empty one, matches  *)
(* only by the first clause, as the empty label.                           *)
(***************************************************************************)
C1_MatchPredicate ==
    \A i \in Stations :
        HasJourney(i) =>
            \A k \in DOMAIN Journey(i) :
                LET d == Journey(i)[k]
                    claimed == \/ EqualIgnoringCaseAndSpace(trainName, d)
                               \/ EqualExactly(trainName, d)
                               \/ ContainedIgnoringCase(trainName, d)
                IN  /\ TrackMatches(d, trainName) <=> claimed
                    /\ DelayMatches(d, trainName) <=> claimed

\* a track call has selected a record that matches by the substring clause alone
C1_Witness ==
    /\ op = "track"
    /\ pc = "done"
    /\ Found(1)
    /\ ~EqualIgnoringCaseAndSpace(trainName, values[1].train)
    /\ ContainedIgnoringCase(trainName, values[1].train)
    /\ ToLowerCase(values[1].train.pr) # values[1].train.pr

(***************************************************************************)
(* C2: when several records of a board match the query label under        *)
(* different clauses, the record selected matches by the highest-          *)
(* precedence clause any record of the board matches by, also when a       *)
(* record matching by a lower clause stands earlier on the board.          *)
(* (Stated for non-empty query labels.)                                    *)
(***************************************************************************)
C2_HighestPrecedenceSelected ==
    \A i \in Stations :
        (HasSelected(i) /\ trainName # <<>>) =>
            \A k \in DOMAIN Journey(i) :
                Precedence(trainName, Selected(i)) <= Precedence(trainName, Journey(i)[k])

(***************************************************************************)
(* C3: a matched record with scheduled instant S and realtime delay d      *)
(* minutes (0 without a realtime delay), handled at instant now, gets      *)
(* status 'departed' exactly when now > S + d minutes, otherwise 'delayed' *)
(* when a realtime delay is present and 'scheduled' when not.  (Stated for *)
(* handlers during which the clock does not advance.)                      *)
(***************************************************************************)
C3_StatusFromScheduledInstant ==
    [][\A i \in Stations :
          (Derives(i) /\ clock' = clock) =>
              LET d == values'[i].train
                  now == clock
                  actual == ScheduledInstant(d) + DelayOf(d) * MsPerMinute
              IN  values'[i].status =
                      IF now > actual THEN "departed"
                      ELSE IF DelayPresent(d) THEN "delayed"
                      ELSE "scheduled"]_vars

(***************************************************************************)
(* C4: the scheduled instant combines the record's own date and time: a    *)
(* matched record dated on a later day than the current day is not given   *)
(* status 'departed'.                                                      *)
(***************************************************************************)
C4_LaterDayNotDeparted ==
    \A i \in Stations :
        (Found(i) /\ DayOfDate(values[i].train.da) > DayOf(clock))
            => values[i].status # "departed"

(***************************************************************************)
(* C5: a matched record whose realtime delay field is the string "0",      *)
(* handled no later than its scheduled instant, gets status 'scheduled',   *)
(* not 'delayed'.  (Stated for records dated on the current day.)          *)
(***************************************************************************)
C5_ZeroDelayIsScheduled ==
    \A i \in Stations :
        (/\ Found(i)
         /\ DelayPresent(values[i].train)
         /\ values[i].train.rt.dlm = <<"0">>
         /\ DayOfDate(values[i].train.da) = DayOf(clock)
         /\ clock <= ScheduledInstant(values[i].train))
            => values[i].status = "scheduled"

(***************************************************************************)
(* The per-station checkpoints of a track call and its overall inference.  *)
(***************************************************************************)
\* the message carried by a lookup that fails in one of the three named ways
FailureMessage(answer) ==
    IF "error" \in DOMAIN answer THEN answer.error.message
    ELSE IF ~answer.body.wrapped \/ answer.body.json # "valid" THEN FormatError.message
    ELSE NoDeparturesError.message

LookupFails(i) ==
    \/ "error" \in DOMAIN upstream[i]
    \/ /\ "nostring" \notin DOMAIN upstream[i].body
       /\ \/ ~upstream[i].body.wrapped
          \/ upstream[i].body.json # "valid"
          \/ "journey" \notin DOMAIN upstream[i].body.data

\* the instants the clock may have shown during the call
CallInstants == (clock - MaxTicks)..clock

\* cp is a checkpoint station i's own board yields, whatever the other stations do
OwnCheckpoint(i, cp) ==
    \E now \in CallInstants : \E today \in now..clock :
        cp = TrackThen(stationIds[i], Journey(i), trainName, now, today).value

StatusOf(cp) == IF "status" \in DOMAIN cp THEN cp.status ELSE "none"

\* the indexes of the resolved checkpoints with one of the given statuses
WithStatus(results, statuses) == {i \in DOMAIN results : StatusOf(results[i]) \in statuses}
Highest(S) == CHOOSE i \in S : \A j \in S : j <= i
Lowest(S) == CHOOSE i \in S : \A j \in S : i <= j

Printed == op = "track" /\ report.printed

(***************************************************************************)
(* C6: in a track call, a board lookup that fails (transport error, format *)
(* error, no departures list) never rejects the call and never changes the *)
(* other stations' checkpoints: the call resolves with one checkpoint per  *)
(* station, the failed station's has found = false and the error message,  *)
(* every other station's is the one its own board yields.  (The only       *)
(* rejection of a track call is that of its handshake, before any lookup.) *)
(***************************************************************************)
C6_FailureIsolated ==
    op = "track" =>
        /\ outcome.state = "rejected" => AuthenticatePromise(auth).state = "rejected"
        /\ (\A i \in Stations : lookup[i] = "settled") =>
               /\ outcome.state = "fulfilled"
               /\ Len(outcome.value) = Len(stationIds)
               /\ outcome.value = values
        /\ \A i \in Stations :
               lookup[i] = "settled" =>
                   /\ ~IsHole(values[i])
                   /\ LookupFails(i) =>
                          values[i] = [stationId |-> stationIds[i], found |-> FALSE,
                                       error |-> FailureMessage(upstream[i])]
                   /\ (HasJourney(i) /\ values[i].found) => OwnCheckpoint(i, values[i])
                   /\ (HasJourney(i) /\ "status" \in DOMAIN values[i] /\ ~values[i].found) =>
                          /\ OwnCheckpoint(i, values[i])
                          /\ \A k \in DOMAIN Journey(i) : ~TrackMatches(Journey(i)[k], trainName)

\* a three-station call has resolved: one lookup failed, the other two found the train
C6_Witness ==
    /\ op = "track"
    /\ Len(stationIds) >= 3
    /\ outcome.state = "fulfilled"
    /\ LookupFails(2)
    /\ ~outcome.value[2].found
    /\ "error" \in DOMAIN outcome.value[2]
    /\ outcome.value[1].found
    /\ outcome.value[3].found

(***************************************************************************)
(* C7: whatever the order in which the lookups of a track call complete,   *)
(* the resolved array is as long as the station-id list and its i-th       *)
(* element carries the i-th id; the overall inference runs only after all  *)
(* lookups have settled.                                                   *)
(***************************************************************************)
C7_StationOrderKept ==
    op = "track" =>
        /\ \A i \in Stations : ~IsHole(values[i]) => values[i].stationId = stationIds[i]
        /\ outcome.state = "fulfilled" =>
               /\ Len(outcome.value) = Len(stationIds)
               /\ \A i \in Stations : outcome.value[i].stationId = stationIds[i]
        /\ report.printed => \A i \in Stations : lookup[i] = "settled"

\* a later station's lookup has completed before an earlier one's
C7_Witness ==
    /\ op = "track"
    /\ Len(stationIds) >= 3
    /\ lookup[1] = "requested"
    /\ lookup[2] = "requested"
    /\ lookup[3] = "settled"
    /\ values[3].stationId = stationIds[3]

(***************************************************************************)
(* C8: lastDeparted is the checkpoint with status 'departed' of greatest   *)
(* index in station-list order, and is absent exactly when no checkpoint   *)
(* has status 'departed'.                                                  *)
(***************************************************************************)
C8_LastDepartedIsRightmost ==
    Printed =>
        LET results == outcome.value
            departed == WithStatus(results, {"departed"})
        IN  IF departed = {} THEN IsNull(report.lastDeparted)
            ELSE /\ ~IsNull(report.lastDeparted)
                 /\ report.lastDeparted.stationId = stationIds[Highest(departed)]
                 /\ report.lastDeparted.time = results[Highest(departed)].actualDeparture

\* the statuses are [departed, departed, delayed] and lastDeparted is the second station
C8_Witness ==
    /\ Printed
    /\ Len(stationIds) = 3
    /\ StatusOf(outcome.value[1]) = "departed"
    /\ StatusOf(outcome.value[2]) = "departed"
    /\ StatusOf(outcome.value[3]) = "delayed"
    /\ report.lastDeparted.stationId = stationIds[2]

(***************************************************************************)
(* C9: nextArrival is the lowest-index checkpoint with status 'scheduled'  *)
(* or 'delayed' among those positioned after lastDeparted, and there is    *)
(* none when no such checkpoint stands after lastDeparted.                 *)
(***************************************************************************)
C9_NextArrivalAfterLastDeparted ==
    Printed =>
        LET results == outcome.value
            departed == WithStatus(results, {"departed"})
            after == IF departed = {} THEN 0 ELSE Highest(departed)
            due == {i \in WithStatus(results, {"scheduled", "delayed"}) : i > after}
        IN  IF due = {} THEN IsNull(report.nextArrival)
            ELSE /\ ~IsNull(report.nextArrival)
                 /\ report.nextArrival.stationId = stationIds[Lowest(due)]

(***************************************************************************)
(* C10: the position reported is decided by which of lastDeparted and      *)
(* nextArrival exist: both, between the two; only lastDeparted, departed   *)
(* from all checked stations; only nextArrival, not yet departed from the  *)
(* first; neither, unable to determine, which is the report when every     *)
(* checkpoint is not_found or failed.                                      *)
(***************************************************************************)
C10_PositionFromTheTwo ==
    Printed =>
        LET last == ~IsNull(report.lastDeparted)
            next == ~IsNull(report.nextArrival)
        IN  /\ (last /\ next) <=> report.location = "between"
            /\ (last /\ ~next) <=> report.location = "departed_all"
            /\ (~last /\ next) <=> report.location = "not_yet_departed"
            /\ (~last /\ ~next) <=> report.location = "unable_to_determine"
            /\ (\A i \in DOMAIN outcome.value : ~outcome.value[i].found)
                   => report.location = "unable_to_determine"

\* a call over a failed station and a station without the train reports no position
C10_Witness ==
    /\ Printed
    /\ Len(stationIds) >= 2
    /\ "error" \in DOMAIN outcome.value[1]
    /\ StatusOf(outcome.value[2]) = "not_found"
    /\ report.location = "unable_to_determine"

(***************************************************************************)
(* C11: in a track call, a station whose board holds no record matching    *)
(* the train label (an empty board included) gets the checkpoint           *)
(* {stationId, found: false, status: 'not_found'}, which carries no train  *)
(* data, and the call does not reject.                                     *)
(***************************************************************************)
C11_NoMatchIsNotFound ==
    op = "track" =>
        /\ outcome.state = "rejected" => AuthenticatePromise(auth).state = "rejected"
        /\ \A i \in Stations :
               (/\ lookup[i] = "settled"
                /\ HasJourney(i)
                /\ \A k \in DOMAIN Journey(i) : Precedence(trainName, Journey(i)[k]) = 4)
                   => values[i] = [stationId |-> stationIds[i], found |-> FALSE,
                                   status |-> "not_found"]

\* a call over one station whose board is the empty list has resolved and been reported
C11_Witness ==
    /\ op = "track"
    /\ pc = "done"
    /\ HasJourney(1)
    /\ Journey(1) = <<>>
    /\ outcome.state = "fulfilled"
    /\ outcome.value[1].status = "not_found"
    /\ ~outcome.value[1].found

(***************************************************************************)
(* C12: every checkpoint of the array a track call resolves with has a     *)
(* status, one of 'scheduled', 'delayed', 'departed', 'not_found', also    *)
(* the checkpoint of a station whose board lookup failed.                  *)
(***************************************************************************)
CheckpointStatuses == {"scheduled", "delayed", "departed", "not_found"}

C12_EveryCheckpointHasStatus ==
    (op = "track" /\ outcome.state = "fulfilled") =>
        \A i \in DOMAIN outcome.value :
            /\ "status" \in DOMAIN outcome.value[i]
            /\ outcome.value[i].status \in CheckpointStatuses

(***************************************************************************)
(* The board fetch on its own: getTrainDepartures.                         *)
(***************************************************************************)
\* the one request of a departures call has been answered and the promise settled
Fetched == op = "departures" /\ lookup[1] = "settled"

HasPayload(answer) == "body" \in DOMAIN answer
IsText(answer) == HasPayload(answer) /\ "nostring" \notin DOMAIN answer.body

\* the payload has no journeysObj marker, or the marked text is not valid JSON
Unparsable(answer) ==
    HasPayload(answer) /\ (~IsText(answer) \/ ~answer.body.wrapped \/ answer.body.json # "valid")

\* the payload parses and the parsed object has no departures list
LacksList(answer) ==
    HasPayload(answer) /\ ~Unparsable(answer) /\ "journey" \notin DOMAIN answer.body.data

\* the payload parses and the parsed object has a departures list
HasList(answer) ==
    HasPayload(answer) /\ ~Unparsable(answer) /\ "journey" \in DOMAIN answer.body.data

C14_EmptyListIsNoDepartures ==
    (Fetched /\ HasList(upstream[1]) /\ upstream[1].body.data.journey = <<>>)
        => outcome = Rejected(NoDeparturesError)

(***************************************************************************)
(* C15: checkTrainDelay rejects with the not-found error, which names the  *)
(* train and the station, exactly when the board was fetched and none of   *)
(* its records matches the train label; when the fetch fails it rejects    *)
(* with the fetch's own error, unchanged.                                  *)
(***************************************************************************)
\* the one request of a delay call has been answered and the promise settled
Checked == op = "delay" /\ lookup[1] = "settled"

NoRecordMatches(answer, label) ==
    /\ HasList(answer)
    /\ \A k \in DOMAIN answer.body.data.journey :
           Precedence(label, answer.body.data.journey[k]) = 4

C15_NotFoundExactlyWhenNoMatch ==
    Checked =>
        /\ (outcome = Rejected(NotFoundError(trainName, stationIds[1])))
               <=> NoRecordMatches(upstream[1], trainName)
        /\ ~HasPayload(upstream[1]) => outcome = Rejected(upstream[1].error)
        /\ Unparsable(upstream[1]) => outcome = Rejected(FormatError)
        /\ LacksList(upstream[1]) => outcome = Rejected(NoDeparturesError)
        /\ (HasList(upstream[1]) /\ ~NoRecordMatches(upstream[1], trainName))
               => outcome.state = "fulfilled"

\* a delay check on a board that has records, none of them the train, has failed
C15_Witness ==
    /\ Checked
    /\ pc = "exit1"
    /\ HasList(upstream[1])
    /\ Len(upstream[1].body.data.journey) >= 1
    /\ outcome.state = "rejected"
    /\ outcome.reason = NotFoundError(trainName, stationIds[1])

(***************************************************************************)
(* The station search: searchStations.                                     *)
(***************************************************************************)
\* the one request of a search call has been answered and the promise settled
Searched == op = "search" /\ lookup[1] = "settled"

\* the response holds the SLs.sls marker and the marked text is valid JSON
Parses(answer) ==
    /\ HasPayload(answer)
    /\ "marker" \in DOMAIN answer.body
    /\ answer.body.marker
    /\ answer.body.json = "valid"

\* ... and the parsed object has a suggestions list
WellFormed(answer) == Parses(answer) /\ "suggestions" \in DOMAIN answer.body.data

\* the errors getStations makes for a response it cannot use
StationFormatErrors == {NoBodyError, CouldNotParseError, ParsingError}

(***************************************************************************)
(* C16, as claimed: searchStations rejects with the transport error,       *)
(* unchanged, when the request fails; rejects with a format error when the *)
(* response has no SLs.sls marker, is not valid JSON, or parses to an      *)
(* object without a suggestions list; resolves only for a well-formed      *)
(* response.                                                               *)
(***************************************************************************)
C16_MalformedRejected ==
    Searched =>
        /\ ~HasPayload(upstream[1]) => outcome = Rejected(upstream[1].error)
        /\ (HasPayload(upstream[1]) /\ ~WellFormed(upstream[1])) =>
               /\ outcome.state = "rejected"
               /\ outcome.reason \in StationFormatErrors
        /\ outcome.state = "fulfilled" => WellFormed(upstream[1])

(***************************************************************************)
(* C16, as amended: searchStations rejects with the transport error,       *)
(* unchanged, when the request fails; rejects with a format error when the *)
(* response is empty, has no SLs.sls marker or is not valid JSON; and      *)
(* resolves with a station list for every response that parses, the empty  *)
(* list when the parsed object has no suggestions list.                    *)
(***************************************************************************)
C16_UnparsableRejected ==
    Searched =>
        /\ ~HasPayload(upstream[1]) => outcome = Rejected(upstream[1].error)
        /\ (HasPayload(upstream[1]) /\ ~Parses(upstream[1])) =>
               /\ outcome.state = "rejected"
               /\ outcome.reason \in StationFormatErrors
        /\ Parses(upstream[1]) => outcome.state = "fulfilled"
        /\ (Parses(upstream[1]) /\ ~WellFormed(upstream[1])) => outcome = Fulfilled(<<>>)

\* a search whose response is not valid JSON has been rejected and the demo has exited
C16_Witness ==
    /\ Searched
    /\ pc = "exit1"
    /\ upstream[1] = BadStationsJson
    /\ outcome = Rejected(ParsingError)

(***************************************************************************)
(* C17: the station list searchStations resolves with has one station per  *)
(* upstream suggestion, in the upstream's order: the i-th station's number *)
(* and name are the i-th suggestion's extId and value.                     *)
(***************************************************************************)
C17_SuggestionOrderKept ==
    (Searched /\ WellFormed(upstream[1])) =>
        LET suggestions == upstream[1].body.data.suggestions
        IN  /\ outcome.state = "fulfilled"
            /\ Len(outcome.value) = Len(suggestions)
            /\ \A i \in DOMAIN suggestions :
                   /\ outcome.value[i].number = suggestions[i].extId
                   /\ outcome.value[i].name = suggestions[i].value

\* a search has resolved with two different stations
C17_Witness ==
    /\ Searched
    /\ pc = "done"
    /\ Len(outcome.value) >= 2
    /\ outcome.value[1].number # outcome.value[2].number
    /\ outcome.value[1].number = upstream[1].body.data.suggestions[1].extId

(***************************************************************************)
(* C18: searchStations(name, count) resolves with at most count stations   *)
(* (15 when count is omitted), however many suggestions the response has.  *)
(***************************************************************************)
C18_AtMostCount ==
    (Searched /\ outcome.state = "fulfilled") => Len(outcome.value) <= count

(***************************************************************************)
(* C19: the result of checkTrainDelay for a matched record has isDelayed   *)
(* true exactly when the record's realtime delay parses to more than 0     *)
(* minutes, delayMinutes equal to that delay (0 without a realtime delay), *)
(* canceled true exactly when the realtime status is 'Ausfall', and        *)
(* actualDeparture equal to scheduledDeparture when the record has neither *)
(* a realtime date nor a realtime time.                                    *)
(***************************************************************************)
IsCanceled(d) == "rt" \in DOMAIN d /\ "status" \in DOMAIN d.rt /\ d.rt.status = Canceled

NoRealtimeDateTime(d) ==
    "rt" \notin DOMAIN d \/ ("dld" \notin DOMAIN d.rt /\ "dlt" \notin DOMAIN d.rt)

C19_DelayResult ==
    (Checked /\ outcome.state = "fulfilled") =>
        LET result == outcome.value
            d == result.train
        IN  /\ result.isDelayed <=> (DelayPresent(d) /\ ParseInt(d.rt.dlm) > 0)
            /\ result.delayMinutes = DelayOf(d)
            /\ result.canceled <=> IsCanceled(d)
            /\ NoRealtimeDateTime(d) => result.actualDeparture = result.scheduledDeparture

\* a delay check of a record whose realtime delay is "0" has been reported as on time
C19_Witness ==
    /\ Checked
    /\ pc = "done"
    /\ DelayPresent(outcome.value.train)
    /\ outcome.value.train.rt.dlm = <<"0">>
    /\ ~outcome.value.isDelayed
    /\ outcome.value.delayMinutes = 0
    /\ report.verdict = "on_time"

(***************************************************************************)
(* C20: the delay check is the one-checkpoint case of the track call: for  *)
(* the same board and train label, checkTrainDelay(stationId, label)       *)
(* resolves exactly when trackTrainJourney(label, [stationId]) yields a    *)
(* checkpoint with found = true, and then both select the same record and  *)
(* report the same delayMinutes.                                           *)
(***************************************************************************)
\* what the other of the two calls yields on this call's board and label
AsTrack == StationPromise(stationIds[1], upstream[1], trainName, clock, clock).value
AsDelay == DelayPromise(stationIds[1], upstream[1], trainName)

C20_DelayIsOneStationTrack ==
    /\ Checked =>
           /\ outcome.state = "fulfilled" <=> AsTrack.found
           /\ outcome.state = "fulfilled" =>
                  /\ AsTrack.train = outcome.value.train
                  /\ AsTrack.delayMinutes = outcome.value.delayMinutes
    /\ (op = "track" /\ Len(stationIds) = 1 /\ lookup[1] = "settled") =>
           /\ values[1].found <=> AsDelay.state = "fulfilled"
           /\ values[1].found =>
                  /\ AsDelay.value.train = values[1].train
                  /\ AsDelay.value.delayMinutes = values[1].delayMinutes

(***************************************************************************)
(* C21: the board fetch accepts both response shapes: a payload that is    *)
(* plain JSON holding a departures list, without the journeysObj marker,   *)
(* resolves with that list, as the wrapped payload does.                   *)
(***************************************************************************)
\* the payload is valid JSON text with a departures list but no marker
IsPlainJsonWithList(answer) ==
    /\ IsText(answer)
    /\ ~answer.body.wrapped
    /\ answer.body.json = "valid"
    /\ "journey" \in DOMAIN answer.body.data

C21_BothShapesAccepted ==
    (Fetched /\ IsPlainJsonWithList(upstream[1]))
        => outcome = Fulfilled(upstream[1].body.data.journey)

(***************************************************************************)
(* C22: no operation retries or falls back.  Once its authentication has   *)
(* resolved, a track call has issued exactly one board request per listed  *)
(* station id, and a delay, departures or search call exactly one data     *)
(* request; the count stays at one after the request's callback, whether   *)
(* the request succeeded or failed.  (With the stub, authentication always *)
(* resolves; a rejected handshake is C25's case.)                          *)
(***************************************************************************)
LibraryCall == op \in {"track", "delay", "departures", "search"}

C22_OneRequestEach ==
    LibraryCall =>
        /\ op = "track" => DOMAIN requests = DOMAIN stationIds
        /\ op # "track" => DOMAIN requests = {1}
        /\ \A i \in DOMAIN requests :
               /\ requests[i] <= 1
               /\ lookup[i] # "idle" => requests[i] = 1
               /\ (pc # "start" /\ AuthenticatePromise(auth).state = "fulfilled")
                      => requests[i] = 1

\* a track call over two stations or more has resolved although the first
\* station's request failed in transport, and each station got one request
C22_Witness ==
    /\ op = "track"
    /\ pc = "done"
    /\ Len(stationIds) >= 2
    /\ "error" \in DOMAIN upstream[1]
    /\ \A i \in DOMAIN requests : requests[i] = 1

(***************************************************************************)
(* C23: status derivation is deterministic in the record and the current   *)
(* instant: a matched record handled at instant now gets the status and    *)
(* the departed flag that the same record gets at the same now in a        *)
(* handler during which the clock stands still, also when the clock        *)
(* advances between the handler's two reads.                               *)
(***************************************************************************)
\* the checkpoint of record d at instant now when both clock reads show now
AtOneInstant(i, d, now) == Checkpoint(stationIds[i], d, now, now).value

C23_StatusDeterministic ==
    [][\A i \in Stations :
          Derives(i) =>
              LET d == values'[i].train
                  now == clock
              IN  /\ values'[i].status = AtOneInstant(i, d, now).status
                  /\ values'[i].departed = AtOneInstant(i, d, now).departed]_vars

(***************************************************************************)
(* C24: the lookups of one track call share no mutable state, and calls    *)
(* share none either.  In every call, the first or a later one, station    *)
(* i has no checkpoint until its own request of this call is answered, and *)
(* the checkpoint it then gets is the one that its own board response, the *)
(* train label and the clock yield, whatever the other stations' responses *)
(* are and whatever an earlier call resolved with; the call resolves with  *)
(* these checkpoints only once every station's request is answered.        *)
(***************************************************************************)
\* cp is what station i's own response yields at some instant of the call
OwnResult(i, cp) ==
    \E now \in CallInstants : \E today \in now..clock :
        StationPromise(stationIds[i], upstream[i], trainName, now, today)
            = Fulfilled(cp)

C24_LookupsIndependent ==
    op = "track" =>
        /\ \A i \in Stations :
               /\ lookup[i] \in {"idle", "requested"} => IsHole(values[i])
               /\ lookup[i] = "settled" => OwnResult(i, values[i])
        /\ outcome.state = "fulfilled" =>
               /\ \A i \in Stations : lookup[i] = "settled"
               /\ outcome.value = values

\* a second call over two stations has resolved, after the upstream's answer
\* changed, with a result that differs from the first call's
C24_Witness ==
    /\ op = "track"
    /\ remaining = 0
    /\ previous # <<>>
    /\ pc = "done"
    /\ Len(stationIds) = 2
    /\ outcome.value # previous

(***************************************************************************)
(* C25: a track call authenticates exactly once, whatever the number of    *)
(* stations, and issues a board request only after that authentication     *)
(* has resolved; when the authentication rejects (the handshake of         *)
(* oebb-direct.js can, the stub cannot), the call rejects with the         *)
(* authentication's error and no board request is issued.                  *)
(***************************************************************************)
C25_AuthenticateOnceThenRequest ==
    op = "track" =>
        LET p == AuthenticatePromise(auth)
        IN  /\ authCalls = IF pc = "start" THEN 0 ELSE 1
            /\ \A i \in Stations :
                   (requests[i] > 0 \/ lookup[i] # "idle")
                       => (authCalls = 1 /\ p.state = "fulfilled")
            /\ auth = Stub => p.state = "fulfilled"
            /\ (pc # "start" /\ p.state = "rejected") =>
                   /\ outcome = p
                   /\ \A i \in Stations : requests[i] = 0 /\ lookup[i] = "idle"

\* a call over two stations or more has been rejected by the handshake's missing
\* token and the caller has reported the error and exited
C25_Witness ==
    /\ op = "track"
    /\ Len(stationIds) >= 2
    /\ auth = NoToken
    /\ pc = "exit1"
    /\ outcome = Rejected(NoTokenError)
    /\ \A i \in Stations : requests[i] = 0

(***************************************************************************)
(* C26: the record selected for a train label at a station is the earliest *)
(* record in board order that satisfies the match predicate; a record is   *)
(* selected whenever at least one matches, none when none does.  In a      *)
(* delay call the selected record is the one the result carries.  In a     *)
(* track call it is the one the checkpoint carries; when the selected      *)
(* record has no time, the handler fails on it after the selection and the *)
(* checkpoint carries that failure, which shows the selection as well.     *)
(***************************************************************************)
\* the positions of the records of station i's board that match the train label
MatchingAt(i) == {k \in DOMAIN Journey(i) : Precedence(trainName, Journey(i)[k]) < 4}
Earliest(i) == Journey(i)[Lowest(MatchingAt(i))]

C26_EarliestMatchSelected ==
    \A i \in Stations :
        (op \in {"track", "delay"} /\ lookup[i] = "settled" /\ HasJourney(i)) =>
            IF MatchingAt(i) = {}
            THEN ~HasSelected(i)
            ELSE IF op = "delay" \/ "ti" \in DOMAIN Earliest(i)
            THEN HasSelected(i) /\ Selected(i) = Earliest(i)
            ELSE values[i] = [stationId |-> stationIds[i], found |-> FALSE,
                              error |-> TypeErrorSplit.message]

\* a track call was answered with a board of two different matching records and
\* its checkpoint carries the first
C26_Witness ==
    /\ op = "track"
    /\ pc = "done"
    /\ Found(1)
    /\ MatchingAt(1) = {1, 2}
    /\ Journey(1)[1] # Journey(1)[2]
    /\ values[1].train = Journey(1)[1]

(***************************************************************************)
(* C27: a track call settles once every board request has invoked its      *)
(* callback: each lookup settles when its callback fires, whatever the     *)
(* callback is given, a missing or non-string body without error included, *)
(* so the fan-in over the stations does not stay pending.                  *)
(***************************************************************************)
\* the callback of every board request of the call has fired
AllCallbacksFired == \A i \in Stations : lookup[i] \notin {"idle", "requested"}

C27_CallSettles ==
    (op = "track" /\ AllCallbacksFired) =>
        /\ \A i \in Stations : lookup[i] = "settled"
        /\ outcome.state # "pending"

(***************************************************************************)
(* C28: in every checkpoint a track call resolves with, found is true      *)
(* exactly when the status is 'scheduled', 'delayed' or 'departed', and    *)
(* for those checkpoints the departed flag is true exactly when the status *)
(* is 'departed'; a checkpoint with found = false carries no train data,   *)
(* no delay and no departed flag.                                          *)
(***************************************************************************)
TrainStatuses == {"scheduled", "delayed", "departed"}

\* the checkpoints the call has resolved with
Resolved ==
    IF op = "track" /\ outcome.state = "fulfilled" THEN outcome.value ELSE <<>>

C28_FoundStatusDeparted ==
    \A i \in DOMAIN Resolved :
        LET cp == Resolved[i]
        IN  /\ cp.found <=> StatusOf(cp) \in TrainStatuses
            /\ cp.found => (cp.departed <=> cp.status = "departed")
            /\ ~cp.found =>
                   DOMAIN cp \cap {"train", "delayMinutes", "departed", "platform",
                                   "scheduledDeparture", "actualDeparture"} = {}

\* a call has resolved with the checkpoint of a delayed train that has not departed
C28_Witness ==
    /\ Resolved # <<>>
    /\ Resolved[1].found
    /\ Resolved[1].status = "delayed"
    /\ Resolved[1].delayMinutes > 0
    /\ ~Resolved[1].departed

(***************************************************************************)
(* C29: the checkpoint status of a track call does not depend on the       *)
(* record's realtime cancellation tag: the record that differs from the    *)
(* matched one only in rt.status (absent versus 'Ausfall') gets the same   *)
(* status from the same handler run, and a canceled train whose scheduled  *)
(* time plus delay, on the handler's day, has passed is 'departed'.        *)
(***************************************************************************)
\* the record that differs from d in rt.status only
Twin(d) ==
    IF IsCanceled(d)
    THEN [d EXCEPT !.rt = [f \in DOMAIN d.rt \ {"status"} |-> d.rt[f]]]
    ELSE [d EXCEPT !.rt = d.rt @@ [status |-> Canceled]]

\* d's scheduled time of day plus its delay, on the day of the instant today
PlacedInstant(d, today) ==
    LET hm == Split(d.ti, Colon)
    IN  (today \div MsPerDay) * MsPerDay + ParseInt(hm[1]) * MsPerHour
            + ParseInt(hm[2]) * MsPerMinute + DelayOf(d) * MsPerMinute

C29_StatusIgnoresCancellation ==
    [][\A i \in Stations :
          (Derives(i) /\ "rt" \in DOMAIN values'[i].train) =>
              LET d == values'[i].train
                  twin == TrackThen(stationIds[i], <<Twin(d)>>, trainName, clock, clock').value
              IN  /\ IsCanceled(Twin(d)) # IsCanceled(d)
                  /\ twin.found
                  /\ values'[i].status = twin.status
                  /\ (IsCanceled(d) /\ clock > PlacedInstant(d, clock'))
                         => values'[i].status = "departed"]_vars

\* a track call has resolved with a canceled train's checkpoint of status departed
C29_Witness ==
    /\ op = "track"
    /\ pc = "done"
    /\ Found(1)
    /\ IsCanceled(values[1].train)
    /\ values[1].status = "departed"
    /\ values[1].departed

(***************************************************************************)
(* C30: in a run of the authentication test script the alternative         *)
(* authentication is attempted exactly once, after the primary attempt has *)
(* settled, whether that succeeded or failed, and the script exits with    *)
(* code 1 only when both the primary and the alternative authentication    *)
(* failed.                                                                 *)
(***************************************************************************)
C30_AlternativeOnce ==
    op = "authtest" =>
        /\ altCalls <= 1
        /\ altCalls > 0 => authCalls = 1
        /\ pc \in {"done", "exit1"} => altCalls = 1
        /\ pc = "exit1" =>
               /\ AuthenticatePromise(auth).state = "rejected"
               /\ AlternativePromise(upstream[1]).state = "rejected"
====
